---------------------------- MODULE Spec2Model ----------------------------
(***************************************************************************)
(* A model of the attitude-simulation core of the repository:              *)
(*   - Face2D / Face3D          (src/CubeSat_model.py)                     *)
(*   - HysteresisRod            (src/hysteresis_rod.py)                    *)
(*   - sim_attitude             (src/adcsim/simulations/sim.py)            *)
(* Each subsystem has its own specification over its own variables; the    *)
(* variables of the other subsystems stay at their idle values.            *)
(*                                                                         *)
(* Numbers.  Polygon coordinates are integers and areas / centroids are    *)
(* exact rationals <<n, d>> in lowest terms (d > 0), with d = 0 standing   *)
(* for the IEEE results of a division by zero (<<1,0>> = inf,              *)
(* <<-1,0>> = -inf, <<0,0>> = nan).  Floating-point rounding is not        *)
(* modelled.                                                               *)
(***************************************************************************)
EXTENDS Integers, Sequences, FiniteSets, TLC

VARIABLES
    face, lastOp, rt, nops,          \* Face2D: the polygon p and its history
    f3, orient_src, f3op,            \* Face3D: the oriented face and its history
    cubesat,                         \* CubeSat: the last constructor call and its result
    rod, call, ncalls, held,         \* HysteresisRod: the rod, its last call, its driver
    pc, sim_params,                  \* sim_attitude: where it is, its parameters
    disturbance_torques, tables,     \* the torque flags, the tables of the cubesat
    loop, state, states,             \* the loop's i and k, the attitude, the saved ones
    log                              \* what the last integration step was handed

face2dVars == <<face, lastOp, rt, nops>>

face3dVars == <<f3, orient_src, f3op, cubesat>>

rodVars == <<rod, call, ncalls, held>>

simVars == <<pc, sim_params, disturbance_torques, tables, loop, state, states, log>>

vars == <<face, lastOp, rt, nops, f3, orient_src, f3op, cubesat, rod, call, ncalls, held,
          pc, sim_params, disturbance_torques, tables, loop, state, states, log>>

(***************************************************************************)
(* Exact rational arithmetic                                               *)
(***************************************************************************)
Abs(n) == IF n < 0 THEN -n ELSE n

Sgn(n) == IF n < 0 THEN -1 ELSE IF n = 0 THEN 0 ELSE 1

RECURSIVE GCD(_, _)
GCD(a, b) == IF b = 0 THEN a ELSE GCD(b, a % b)

Rat(n, d) ==
    IF d = 0 THEN <<Sgn(n), 0>>
    ELSE LET g == GCD(Abs(n), Abs(d))
         IN  <<(Sgn(d) * n) \div g, Abs(d) \div g>>

RInt(n) == <<n, 1>>

RAdd(a, b) == Rat(a[1] * b[2] + b[1] * a[2], a[2] * b[2])

RSub(a, b) == Rat(a[1] * b[2] - b[1] * a[2], a[2] * b[2])

RMul(a, b) == Rat(a[1] * b[1], a[2] * b[2])

RDiv(a, b) == Rat(a[1] * b[2], a[2] * b[1])

(***************************************************************************)
(* Face2D (src/CubeSat_model.py).  vertices is the (2, n) array, kept as   *)
(* the sequence of its columns <<x, y>>.                                   *)
(***************************************************************************)
MaxOps == 3

bigSquare == << <<-2, -2>>, <<2, -2>>, <<2, 2>>, <<-2, 2>>, <<-2, -2>> >>

littleSquare == << <<-1, -1>>, <<1, -1>>, <<1, 1>>, <<-1, 1>>, <<-1, -1>> >>

triangle == << <<0, 0>>, <<1, 0>>, <<0, 1>>, <<0, 0>> >>

Rings == {bigSquare, littleSquare, triangle}

Vecs == {<<1, 0>>, <<-1, 0>>, <<0, 1>>}

\* v[0, i] * v[1, i + 1] - v[0, i + 1] * v[1, i], for the 1-based column i
Cross(v, i) == v[i][1] * v[i + 1][2] - v[i + 1][1] * v[i][2]

RECURSIVE AreaSum(_, _)
AreaSum(v, i) == IF i >= Len(v) THEN 0 ELSE Cross(v, i) + AreaSum(v, i + 1)

RECURSIVE CentroidSum(_, _, _)
CentroidSum(v, c, i) ==
    IF i >= Len(v) THEN 0
    ELSE (v[i][c] + v[i + 1][c]) * Cross(v, i) + CentroidSum(v, c, i + 1)

polygon_area(v) == RMul(<<1, 2>>, RInt(AreaSum(v, 1)))

polygon_centroid(v) ==
    LET den == RMul(RInt(6), polygon_area(v))
    IN  <<RDiv(RInt(CentroidSum(v, 1, 1)), den),
          RDiv(RInt(CentroidSum(v, 2, 1)), den)>>

Face2D(v) ==
    [vertices |-> v, area |-> polygon_area(v), centroid |-> polygon_centroid(v)]

\* vertices + other.reshape(2, 1)
Translate(v, t) == [i \in 1..Len(v) |-> <<v[i][1] + t[1], v[i][2] + t[2]>>]

Neg(t) == <<-t[1], -t[2]>>

\* other.vertices[:, ::-1]
Reverse(v) == [i \in 1..Len(v) |-> v[Len(v) + 1 - i]]

\* self.vertices[:, :1]
FirstColumn(v) == SubSeq(v, 1, 1)

ndarray(t) == [type |-> "ndarray", value |-> t]

Face2DOperand(f) == [type |-> "Face2D", value |-> f]

\* an operand that is neither an ndarray nor a Face2D
otherOperand == [type |-> "other", value |-> <<>>]

Returned(f) == [raised |-> "none", value |-> f]

Raised(f) == [raised |-> "TypeError", value |-> f]

add(self, other) ==
    IF other.type = "ndarray"
    THEN Returned(Face2D(Translate(self.vertices, other.value)))
    ELSE IF other.type = "Face2D"
    THEN Returned(Face2D(self.vertices \o other.value.vertices
                         \o FirstColumn(self.vertices)))
    ELSE Raised(self)

iadd(self, other) ==
    IF other.type = "ndarray"
    THEN Returned([self EXCEPT !.vertices = Translate(self.vertices, other.value)])
    ELSE IF other.type = "Face2D"
    THEN Returned([self EXCEPT !.vertices = self.vertices \o other.value.vertices
                                            \o FirstColumn(self.vertices)])
    ELSE Raised(self)

sub_noreverse(self, other) ==
    IF other.type = "ndarray"
    THEN Returned(Face2D(Translate(self.vertices, Neg(other.value))))
    ELSE IF other.type = "Face2D"
    THEN Returned(Face2D(self.vertices \o other.value.vertices
                         \o FirstColumn(self.vertices)))
    ELSE Raised(self)

sub(self, other) ==
    IF other.type = "ndarray"
    THEN Returned(Face2D(Translate(self.vertices, Neg(other.value))))
    ELSE IF other.type = "Face2D"
    THEN Returned(Face2D(self.vertices \o Reverse(other.value.vertices)
                         \o FirstColumn(self.vertices)))
    ELSE Raised(self)

isub(self, other) ==
    IF other.type = "ndarray"
    THEN Returned([self EXCEPT !.vertices = Translate(self.vertices, Neg(other.value))])
    ELSE IF other.type = "Face2D"
    THEN Returned([self EXCEPT !.vertices = self.vertices
                                            \o Reverse(other.value.vertices)
                                            \o FirstColumn(self.vertices)])
    ELSE Raised(self)

\* the operands the callers of the model pass, by type: vectors, freshly built
\* polygons, and one value of an unsupported type
Operands ==
    <<{ndarray(t) : t \in Vecs},
      {Face2DOperand(Face2D(r)) : r \in {littleSquare, triangle}},
      {otherOperand}>>

\* rt follows a translation by t that is followed by a translation by -t, made
\* with + or -: stage 1 after the first leg, 2 after the second; origin is the
\* polygon the first leg started from.
NextRt(op, other, result) ==
    IF op \in {"add", "sub"} /\ other.type = "ndarray"
    THEN LET e == IF op = "add" THEN other.value ELSE Neg(other.value)
         IN  IF rt.stage = 1 /\ e = Neg(rt.t)
             THEN [stage |-> 2, t |-> e, origin |-> rt.origin]
             ELSE [stage |-> 1, t |-> e, origin |-> face]
    ELSE [stage |-> 0, t |-> <<0, 0>>, origin |-> result]

Apply2D(op, other, r) ==
    /\ nops < MaxOps
    /\ face' = r.value
    /\ lastOp' = [op |-> op, other |-> other, before |-> face, raised |-> r.raised]
    /\ rt' = NextRt(op, other, r.value)
    /\ nops' = nops + 1
    /\ UNCHANGED <<face3dVars, rodVars, simVars>>

\* p = p + other
Add ==
    \E kind \in DOMAIN Operands : \E other \in Operands[kind] :
        Apply2D("add", other, add(face, other))

\* p = p - other
Sub ==
    \E kind \in DOMAIN Operands : \E other \in Operands[kind] :
        Apply2D("sub", other, sub(face, other))

\* p += other
IAdd ==
    \E kind \in DOMAIN Operands : \E other \in Operands[kind] :
        Apply2D("iadd", other, iadd(face, other))

\* p -= other
ISub ==
    \E kind \in DOMAIN Operands : \E other \in Operands[kind] :
        Apply2D("isub", other, isub(face, other))

StartFace2D ==
    /\ face \in {Face2D(r) : r \in Rings}
    /\ lastOp = [op |-> "init", other |-> otherOperand, before |-> face,
                 raised |-> "none"]
    /\ rt = [stage |-> 0, t |-> <<0, 0>>, origin |-> face]
    /\ nops = 0

\* the values of the Face2D variables in the specifications of the other parts
IdleFace2D ==
    [face |-> Face2D(bigSquare),
     lastOp |-> [op |-> "idle", other |-> otherOperand, before |-> Face2D(bigSquare),
                 raised |-> "none"],
     rt |-> [stage |-> 0, t |-> <<0, 0>>, origin |-> Face2D(bigSquare)],
     nops |-> 0]

NextFace2D == Add \/ Sub \/ IAdd \/ ISub

(***************************************************************************)
(* Claims about Face2D                                                     *)
(***************************************************************************)

\* C1: after any sequence of construction, translation and ring combination
\* (+, -, +=, -=) the stored area and the stored centroid are the shoelace
\* area and the polygon centroid of the current vertices.
C1_StoredMatchesVertices ==
    /\ face.area = polygon_area(face.vertices)
    /\ face.centroid = polygon_centroid(face.vertices)

\* one closed ring that turns left at every corner and winds once
SimpleCCWRing(v) ==
    /\ Len(v) \in 4..5
    /\ v[1] = v[Len(v)]
    /\ \A i \in 1..(Len(v) - 1) :
          LET a == v[i]
              b == v[i + 1]
              c == IF i + 1 = Len(v) THEN v[2] ELSE v[i + 2]
          IN  (b[1] - a[1]) * (c[2] - b[2]) - (b[2] - a[2]) * (c[1] - b[1]) > 0

\* every vertex of b lies strictly to the left of every edge of the convex ring a
StrictlyInterior(b, a) ==
    \A j \in 1..Len(b) : \A i \in 1..(Len(a) - 1) :
        (a[i + 1][1] - a[i][1]) * (b[j][2] - a[i][2])
            - (a[i + 1][2] - a[i][2]) * (b[j][1] - a[i][1]) > 0

C2_Case ==
    /\ lastOp.op = "sub"
    /\ lastOp.other.type = "Face2D"
    /\ SimpleCCWRing(lastOp.before.vertices)
    /\ SimpleCCWRing(lastOp.other.value.vertices)
    /\ StrictlyInterior(lastOp.other.value.vertices, lastOp.before.vertices)

\* C2: for closed counterclockwise rings A and B with B strictly interior to A,
\* the polygon A - B has area(A) - area(B).
C2_DifferenceArea ==
    C2_Case => face.area = RSub(lastOp.before.area, lastOp.other.value.area)

\* the side-4 square minus the centered side-2 square has area 12
C2_Witness ==
    /\ C2_Case
    /\ lastOp.before.vertices = bigSquare
    /\ lastOp.other.value.vertices = littleSquare
    /\ face.area = RInt(12)

\* C3: translating a polygon p by t and the result by -t gives a polygon whose
\* vertices and centroid are those of p.
C3_RoundTrip ==
    rt.stage = 2 =>
        /\ face.vertices = rt.origin.vertices
        /\ face.centroid = rt.origin.centroid

(***************************************************************************)
(* Face3D (src/CubeSat_model.py).  A matrix is the tuple of its rows.      *)
(***************************************************************************)
Eye == << <<1, 0, 0>>, <<0, 1, 0>>, <<0, 0, 1>> >>

Zero3 == <<0, 0, 0>>

None == "None"

\* np.cross
cross(a, b) ==
    <<a[2] * b[3] - a[3] * b[2], a[3] * b[1] - a[1] * b[3], a[1] * b[2] - a[2] * b[1]>>

\* np.column_stack
column_stack(c1, c2, c3) == [r \in 1..3 |-> <<c1[r], c2[r], c3[r]>>]

Column(m, c) == <<m[1][c], m[2][c], m[3][c]>>

\* orientation @ v, for an integer vector
MatVec(m, v) == [r \in 1..3 |-> m[r][1] * v[1] + m[r][2] * v[2] + m[r][3] * v[3]]

\* orientation @ v, for a vector of rationals
MatVecR(m, v) ==
    [r \in 1..3 |->
        RAdd(RAdd(RMul(RInt(m[r][1]), v[1]), RMul(RInt(m[r][2]), v[2])),
             RMul(RInt(m[r][3]), v[3]))]

\* string is a sequence of characters; string[0] the sign, string[1] the axis
unit_vector_from_string(string) ==
    LET v == IF string[2] = "x" THEN <<1, 0, 0>>
             ELSE IF string[2] = "y" THEN <<0, 1, 0>>
             ELSE IF string[2] = "z" THEN <<0, 0, 1>>
             ELSE None
    IN  IF v = None THEN None
        ELSE IF string[1] = "+" THEN v
        ELSE IF string[1] = "-" THEN <<-v[1], -v[2], -v[3]>>
        ELSE None

set_face_positions(self) ==
    LET n == Len(self.face.vertices)
        flat == [i \in 1..n |-> <<self.face.vertices[i][1], self.face.vertices[i][2], 0>>]
        c == <<self.face.centroid[1], self.face.centroid[2], RInt(0)>>
        rotated == [i \in 1..n |-> MatVec(self.orientation, flat[i])]
        rc == MatVecR(self.orientation, c)
    IN  [self EXCEPT
            !.vertices = [i \in 1..n |->
                            [r \in 1..3 |-> rotated[i][r] + self.translation[r]]],
            !.area = self.face.area,
            !.centroid = [r \in 1..3 |-> RAdd(rc[r], RInt(self.translation[r]))],
            !.normal = MatVec(self.orientation, <<0, 0, 1>>)]

face_setter(self, value) ==
    Returned(set_face_positions([self EXCEPT !.face = value]))

orientation_setter_lefthanded(self, value) ==
    IF value.type = "str"
    THEN LET e1 == unit_vector_from_string(SubSeq(value.value, 1, 2))
             e2 == unit_vector_from_string(SubSeq(value.value, 3, Len(value.value)))
         IN  IF e1 = None \/ e2 = None THEN Raised(self)
             ELSE Returned(set_face_positions(
                      [self EXCEPT !.orientation = column_stack(e1, e2, cross(e2, e1))]))
    ELSE Returned(set_face_positions([self EXCEPT !.orientation = value.value]))

\* np.cross raises when a token gave None
orientation_setter(self, value) ==
    IF value.type = "str"
    THEN LET e1 == unit_vector_from_string(SubSeq(value.value, 1, 2))
             e2 == unit_vector_from_string(SubSeq(value.value, 3, Len(value.value)))
         IN  IF e1 = None \/ e2 = None THEN Raised(self)
             ELSE Returned(set_face_positions(
                      [self EXCEPT !.orientation = column_stack(e1, e2, cross(e1, e2))]))
    ELSE Returned(set_face_positions([self EXCEPT !.orientation = value.value]))

translation_setter_stale(self, value) ==
    Returned([self EXCEPT !.translation = value])

translation_setter(self, value) ==
    Returned(set_face_positions([self EXCEPT !.translation = value]))

str(s) == [type |-> "str", value |-> s]

matrix(m) == [type |-> "ndarray", value |-> m]

\* Face3D.__init__
Face3D(fc, orientation, translation) ==
    LET s0 == [face |-> fc, orientation |-> Eye, translation |-> Zero3,
               vertices |-> <<>>, area |-> RInt(0),
               centroid |-> <<RInt(0), RInt(0), RInt(0)>>, normal |-> Zero3]
        s1 == face_setter(s0, fc).value
        s2 == orientation_setter(s1, orientation).value
    IN  translation_setter(s2, translation).value

Signs == {"+", "-"}

Axes == {"x", "y", "z"}

AxisPairs == {<<s1, a1, s2, a2>> : s1 \in Signs, a1 \in Axes, s2 \in Signs, a2 \in Axes}

\* strings with a character that names no sign or no axis
Malformed == {<<"+", "w", "+", "y">>, <<"+", "x", "*", "y">>}

RotZ == << <<0, -1, 0>>, <<1, 0, 0>>, <<0, 0, 1>> >>

\* a matrix that is not orthonormal: it is stored as given
Stretch == << <<2, 0, 0>>, <<0, 1, 0>>, <<0, 0, 1>> >>

Orientations ==
    {str(s) : s \in AxisPairs \cup Malformed} \cup {matrix(m) : m \in {Eye, RotZ, Stretch}}

Translations == {Zero3, <<0, 1, 2>>, <<-1, 0, 0>>}

\* the polygons a Face3D is given: fresh ones, one with a hole, and one that
\* was translated in place before
Faces ==
    {Face2D(bigSquare), Face2D(triangle),
     sub(Face2D(bigSquare), Face2DOperand(Face2D(littleSquare))).value,
     iadd(Face2D(littleSquare), ndarray(<<1, 0>>)).value}

Apply3D(op, r, src) ==
    /\ f3' = r.value
    /\ f3op' = [op |-> op, raised |-> r.raised]
    /\ orient_src' = IF r.raised = "none" THEN src ELSE orient_src
    /\ UNCHANGED <<cubesat, face2dVars, rodVars, simVars>>

\* face3d.face = value
SetFace == \E value \in Faces : Apply3D("face", face_setter(f3, value), orient_src)

\* face3d.orientation = value
SetOrientation ==
    \E value \in Orientations : Apply3D("orientation", orientation_setter(f3, value), value)

\* face3d.translation = value
SetTranslation ==
    \E value \in Translations :
        Apply3D("translation", translation_setter(f3, value), orient_src)

StartFace3D ==
    /\ \E fc \in Faces, o \in Orientations \ {str(s) : s \in Malformed},
          t \in Translations :
          /\ f3 = Face3D(fc, o, t)
          /\ orient_src = o
    /\ f3op = [op |-> "init", raised |-> "none"]

\* the values of the Face3D variables in the specifications of the other parts
IdleFace3D ==
    [f3 |-> Face3D(Face2D(bigSquare), str(<<"+", "x", "+", "y">>), Zero3),
     orient_src |-> str(<<"+", "x", "+", "y">>),
     f3op |-> [op |-> "idle", raised |-> "none"]]

NextFace3D == SetFace \/ SetOrientation \/ SetTranslation

(***************************************************************************)
(* Claims about Face3D                                                     *)
(***************************************************************************)

\* C4: in every state reached by construction and face, orientation and
\* translation assignments, the 3D vertices are the orientation applied to the
\* face's 2D vertices at z = 0 plus the translation, the area is the face's
\* area, the centroid is the orientation applied to the face's centroid at
\* z = 0 plus the translation, and the normal is the orientation applied to +z.
C4_DerivedConsistent ==
    LET v2 == f3.face.vertices
        m == f3.orientation
        t == f3.translation
        c == f3.face.centroid
    IN  /\ Len(f3.vertices) = Len(v2)
        /\ \A i \in 1..Len(v2) : \A r \in 1..3 :
              f3.vertices[i][r] = m[r][1] * v2[i][1] + m[r][2] * v2[i][2] + t[r]
        /\ f3.area = f3.face.area
        /\ \A r \in 1..3 :
              f3.centroid[r] = RAdd(RAdd(RMul(RInt(m[r][1]), c[1]),
                                         RMul(RInt(m[r][2]), c[2])), RInt(t[r]))
        /\ \A r \in 1..3 : f3.normal[r] = m[r][3]

\* the square with a hole, oriented '+z-y' and then moved to (0, 1, 2)
C4_Witness ==
    /\ f3op = [op |-> "translation", raised |-> "none"]
    /\ orient_src = str(<<"+", "z", "-", "y">>)
    /\ f3.translation = <<0, 1, 2>>
    /\ Len(f3.face.vertices) = 11
    /\ f3.area = RInt(12)
    /\ f3.centroid = <<RInt(0), RInt(1), RInt(2)>>
    /\ f3.normal = <<1, 0, 0>>
    /\ f3.vertices[2] = <<0, 3, 4>>

SignedAxis(sign, axis) ==
    LET s == IF sign = "+" THEN 1 ELSE -1
    IN  <<IF axis = "x" THEN s ELSE 0, IF axis = "y" THEN s ELSE 0,
          IF axis = "z" THEN s ELSE 0>>

Dot(a, b) == a[1] * b[1] + a[2] * b[2] + a[3] * b[3]

Det(m) ==
    m[1][1] * (m[2][2] * m[3][3] - m[2][3] * m[3][2])
    - m[1][2] * (m[2][1] * m[3][3] - m[2][3] * m[3][1])
    + m[1][3] * (m[2][1] * m[3][2] - m[2][2] * m[3][1])

\* the orientation was last given as two tokens naming signed axes
C5_Case == orient_src.type = "str"

C5_Frame ==
    LET m == f3.orientation
        e1 == SignedAxis(orient_src.value[1], orient_src.value[2])
        e2 == SignedAxis(orient_src.value[3], orient_src.value[4])
    IN  /\ Column(m, 1) = e1
        /\ Column(m, 2) = e2
        /\ Column(m, 3) = cross(e1, e2)
        /\ \A i \in 1..3 : \A j \in 1..3 :
              Dot(Column(m, i), Column(m, j)) = IF i = j THEN 1 ELSE 0
        /\ Det(m) = 1
        /\ f3.normal = Column(m, 3)

\* C5 as stated: for every pair of tokens naming signed axes the orientation has
\* the columns e1, e2, e1 x e2, is a right-handed orthonormal frame and the
\* normal is its third column.
C5_AnyAxisPair == C5_Case => C5_Frame

\* C5 (amended): the same for every pair of tokens that name two different axes;
\* the columns are e1, e2, e1 x e2 for every pair.
C5_DistinctAxes ==
    /\ (C5_Case /\ orient_src.value[2] # orient_src.value[4]) => C5_Frame
    /\ C5_Case =>
          /\ Column(f3.orientation, 1)
                = SignedAxis(orient_src.value[1], orient_src.value[2])
          /\ Column(f3.orientation, 2)
                = SignedAxis(orient_src.value[3], orient_src.value[4])
          /\ Column(f3.orientation, 3)
                = cross(Column(f3.orientation, 1), Column(f3.orientation, 2))
          /\ f3.normal = Column(f3.orientation, 3)

C5_Witness ==
    /\ f3op = [op |-> "orientation", raised |-> "none"]
    /\ orient_src = str(<<"+", "z", "-", "y">>)
    /\ f3.orientation = << <<0, 0, 1>>, <<0, -1, 0>>, <<1, 0, 0>> >>
    /\ f3.normal = <<1, 0, 0>>

(***************************************************************************)
(* HysteresisRod (src/hysteresis_rod.py).                                  *)
(*                                                                         *)
(* Fixed-point numbers: a field value h is an integer; a magnetization is  *)
(* an integer number of 1/BScale; a slope d(b)/d(h) an integer number of   *)
(* 1/DScale; an angle or an arctan argument an integer number of 1/AScale. *)
(* Div rounds toward zero.  The rod is the one of the module's own run:    *)
(* HysteresisRod(8, 10, 100).                                              *)
(***************************************************************************)
BScale == 10 ^ 2

DScale == 10 ^ 5

AScale == 10 ^ 4

\* np.pi, in 1/AScale
Pi == 31416

\* a / b of two fixed-point numbers, rounded toward zero; a function, so that
\* the operands are computed once
Quotient[a \in Int, b \in Int] == Sgn(a) * Sgn(b) * (Abs(a) \div Abs(b))

Div(a, b) == Quotient[a, b]

br == 8

bs == 10

hc == 100

\* self.k = (1/hc) * np.tan(np.pi * br / 2 / bs), in 1/10^6: 0.030777
k == 30777

\* self.u0 = 4 * np.pi * 10**-7, in 1/DScale: below the resolution
u0 == (4 * Pi) \div (AScale * (10 ^ 7 \div DScale))

\* np.arctan of x/AScale, in 1/AScale: the polynomial 4.4.47 of Abramowitz and
\* Stegun on [0, 1], arctan(x) = pi/2 - arctan(1/x) beyond it, odd in x
RECURSIVE arctan(_)
arctan(x) ==
    IF x < 0 THEN -arctan(-x)
    ELSE IF x > AScale THEN Div(Pi, 2) - arctan(Div(AScale * AScale, x))
    ELSE LET x2 == Div(x * x, AScale)
             p4 == 208
             p3 == -851 + Div(p4 * x2, AScale)
             p2 == 1801 + Div(p3 * x2, AScale)
             p1 == -3303 + Div(p2 * x2, AScale)
             p0 == 9999 + Div(p1 * x2, AScale)
         IN  Div(x * p0, AScale)

\* self.k * (h + offset), in 1/AScale
KTimes(h, offset) == Div(k * (h + offset), 100)

b_field_top(h) == Div(2 * bs * arctan(KTimes(h, hc)) * BScale, Pi)

b_field_bottom(h) == Div(2 * bs * arctan(KTimes(h, -hc)) * BScale, Pi)

\* 2 * self.bs * self.k / (1 + (h + offset)**2 * self.k**2) / np.pi, in 1/DScale
LimitDerivative(h, offset) ==
    LET x == Div(KTimes(h, offset), 100)
        one_plus_x2 == Div(AScale + x * x, 10)
        v == Div(Div(2 * bs * k, 10) * 1000, one_plus_x2)
    IN  Div(v * AScale, Pi)

b_field_top_derivative(h) == LimitDerivative(h, hc)

b_field_bottom_derivative(h) == LimitDerivative(h, -hc)

mag_process_positive_h(h, b) ==
    u0 + Div((b_field_top(h) - b) * (b_field_bottom_derivative(h) - u0),
             b_field_top(h) - b_field_bottom(h))

mag_process_negative_h(h, b) ==
    u0 + Div((b - b_field_bottom(h)) * (b_field_top_derivative(h) - u0),
             b_field_top(h) - b_field_bottom(h))

\* f names the derivative function handed over; f(h, b) in 1/DScale
Derivative(f, h, b) ==
    IF f = "mag_process_positive_h" THEN mag_process_positive_h(h, b)
    ELSE mag_process_negative_h(h, b)

\* slope * step, as a magnetization
TimesStep(slope, step) == Div(slope * step, DScale \div BScale)

\* integrators.rk4_general(f, h, t, y): one classical Runge-Kutta step of size h
\* from (t, y)
rk4_general(f, h, t, y) ==
    LET k1 == TimesStep(Derivative(f, t, y), h)
        k2 == TimesStep(Derivative(f, t + Div(h, 2), y + Div(k1, 2)), h)
        k3 == TimesStep(Derivative(f, t + Div(h, 2), y + Div(k2, 2)), h)
        k4 == TimesStep(Derivative(f, t + h, y + k3), h)
    IN  y + Div(k1 + 2 * k2 + 2 * k3 + k4, 6)

zeros(n) == [i \in 1..n |-> 0]

\* HysteresisRod.__init__; integration_size = 0 stands for None (no buffers)
HysteresisRod(h_initial, b_initial, integration_size) ==
    [b_previous |-> b_initial, h_previous |-> h_initial,
     h_current |-> h_initial, b_current |-> b_initial,
     sized |-> integration_size > 0,
     b |-> zeros(integration_size), h |-> zeros(integration_size)]

\* a call's result: the rod after it and what the call handed to the integrator
\* (or used in the first-order update): the derivative function f, the step,
\* the independent-variable value t and the magnetization y
propagate_magnetization_stale_previous(self, h) ==
    LET s1 == [self EXCEPT !.h_current = h]
        s2 == [s1 EXCEPT !.b_previous = s1.b_current]
        step == s2.h_current - s2.h_previous
        f == IF s2.h_current >= s2.h_previous THEN "mag_process_positive_h"
             ELSE "mag_process_negative_h"
    IN  [self |-> [s2 EXCEPT !.b_current =
                       rk4_general(f, step, s2.h_current, s2.b_previous)],
         f |-> f, step |-> step, t |-> s2.h_current, y |-> s2.b_previous]

propagate_magnetization(self, h) ==
    LET s1 == [self EXCEPT !.h_current = h, !.h_previous = self.h_current]
        s2 == [s1 EXCEPT !.b_previous = s1.b_current]
        step == s2.h_current - s2.h_previous
        f == IF s2.h_current >= s2.h_previous THEN "mag_process_positive_h"
             ELSE "mag_process_negative_h"
    IN  [self |-> [s2 EXCEPT !.b_current =
                       rk4_general(f, step, s2.h_current, s2.b_previous)],
         f |-> f, step |-> step, t |-> s2.h_current, y |-> s2.b_previous]

\* i is the 0-based step index of the source: self.h[i] is h[i + 1] here
propagate_and_save_magnetization(self, h, i) ==
    LET s1 == [self EXCEPT !.h[i + 2] = h]
        step == s1.h[i + 2] - s1.h[i + 1]
        f == IF s1.h[i + 2] >= s1.h[i + 1] THEN "mag_process_positive_h"
             ELSE "mag_process_negative_h"
        s2 == [s1 EXCEPT !.b[i + 2] =
                   s1.b[i + 1] + TimesStep(Derivative(f, s1.h[i + 2], s1.b[i + 1]), step)]
        s3 == [s2 EXCEPT !.h_current = h]
    IN  [self |-> [s3 EXCEPT !.b_current = s3.b[i + 2]],
         f |-> f, step |-> step, t |-> s1.h[i + 2], y |-> s1.b[i + 1]]

MaxCalls == 2

BufSize == 3

\* magnetizations beyond it are not propagated further
BCap == 1100

HFar == 600

HVals == {-200, -100, 0, 100, 200}

\* magnetizations between the two limiting curves at the field h
Between(h) ==
    {b_field_bottom(h), Div(b_field_bottom(h) + b_field_top(h), 2), b_field_top(h)}

\* the rods of the model: built with an initial magnetization between the curves,
\* without buffers, with zeroed buffers, or with buffers whose first entries the
\* caller has set to the initial state (as sim_attitude does)
Rods(fields) ==
    LET initial == {<<h0, b0>> \in fields \X (-BCap..BCap) : b0 \in Between(h0)}
        built == {HysteresisRod(x[1], x[2], n) : x \in initial, n \in {0, BufSize}}
    IN  built \cup {[r EXCEPT !.h[1] = r.h_current, !.b[1] = r.b_current] :
                      r \in {q \in built : q.sized}}

NoCall ==
    [op |-> "init", h |-> 0, i |-> 0, before |-> HysteresisRod(0, 0, 0),
     f |-> "none", step |-> 0, t |-> 0, y |-> 0]

ApplyRod(op, h, i, r) ==
    /\ rod' = r.self
    /\ call' = [op |-> op, h |-> h, i |-> i, before |-> rod, f |-> r.f,
                step |-> r.step, t |-> r.t, y |-> r.y]

\* rod.propagate_magnetization(h)
Propagate ==
    \E h \in HVals :
        /\ ncalls < MaxCalls
        /\ Abs(rod.b_current) <= BCap
        /\ ApplyRod("propagate", h, 0, propagate_magnetization(rod, h))
        /\ ncalls' = ncalls + 1
        /\ UNCHANGED <<held, face2dVars, face3dVars, simVars>>

\* rod.propagate_and_save_magnetization(h, i), for a rod with buffers and an
\* index inside them
PropagateAndSave ==
    \E h \in HVals, i \in 0..(BufSize - 2) :
        /\ ncalls < MaxCalls
        /\ rod.sized
        /\ Abs(rod.b[i + 1]) <= BCap
        /\ ApplyRod("save", h, i, propagate_and_save_magnetization(rod, h, i))
        /\ ncalls' = ncalls + 1
        /\ UNCHANGED <<held, face2dVars, face3dVars, simVars>>

\* The driver that holds the field: every step it hands the same field value
\* held.h to the rod, in the buffered mode with the consecutive step indices
\* 0, 1, ...  held.calls is the parity of the number of calls made.
HoldPropagate ==
    /\ ~rod.sized
    /\ Abs(rod.b_current) <= BCap
    /\ ApplyRod("propagate", held.h, 0, propagate_magnetization(rod, held.h))
    /\ held' = [held EXCEPT !.calls = 1 - held.calls]
    /\ UNCHANGED <<ncalls, face2dVars, face3dVars, simVars>>

HoldPropagateAndSave ==
    /\ rod.sized
    /\ ncalls <= BufSize - 2
    /\ Abs(rod.b[ncalls + 1]) <= BCap
    /\ ApplyRod("save", held.h, ncalls,
                propagate_and_save_magnetization(rod, held.h, ncalls))
    /\ ncalls' = ncalls + 1
    /\ held' = [held EXCEPT !.calls = 1 - held.calls]
    /\ UNCHANGED <<face2dVars, face3dVars, simVars>>

(***************************************************************************)
(* Claims about HysteresisRod                                              *)
(***************************************************************************)
\* the tolerance of a comparison of magnetizations, in 1/BScale
Tol == 5

\* C6: after every call of propagate_magnetization or
\* propagate_and_save_magnetization, for any sequence of field values, the
\* magnetization lies between the two limiting curves at the current field
\* (every rod of the model starts between them).
C6_BetweenCurves ==
    call.op \in {"propagate", "save"} =>
        /\ b_field_bottom(rod.h_current) - Tol <= rod.b_current
        /\ rod.b_current <= b_field_top(rod.h_current) + Tol

\* +bs for a field held above +hc, -bs for one held below -hc, in 1/BScale
Saturation == IF held.h > 0 THEN bs * BScale ELSE -(bs * BScale)

NearSaturation == Abs(Saturation - rod.b_current) <= Tol

\* C7 as stated: with the same field value, far beyond the coercivity, handed to
\* the rod call after call, the magnetization eventually comes within the
\* tolerance of the saturation.
C7_DrivenToSaturation == <>NearSaturation

\* C7 (amended): a held field does not move the magnetization.  A call of
\* propagate_magnetization with the field the rod already has leaves b_current
\* as it was; a call of propagate_and_save_magnetization(h, i) with h = h[i]
\* sets b[i + 1] and b_current to b[i].
C7_HeldFieldKeepsMagnetization ==
    /\ (call.op = "propagate" /\ call.h = call.before.h_current)
          => rod.b_current = call.before.b_current
    /\ (call.op = "save" /\ call.h = call.before.h[call.i + 1])
          => /\ rod.b[call.i + 2] = call.before.b[call.i + 1]
             /\ rod.b_current = call.before.b[call.i + 1]

\* the far field is handed to a rod that already has it, and the magnetization
\* stays where it was, away from the saturation
C7_Witness ==
    /\ call.op = "propagate"
    /\ call.h = HFar
    /\ call.before.h_current = HFar
    /\ call.before.h_previous # HFar
    /\ rod.b_current = call.before.b_current
    /\ ~NearSaturation

\* C12: in both modes the increasing-field formula mag_process_positive_h is
\* used exactly when the new field is >= the field the rod had before the call,
\* the decreasing-field formula otherwise, whatever the calls and step indices.
C12_BranchBySignOfFieldChange ==
    call.op \in {"propagate", "save"} =>
        (call.f = "mag_process_positive_h" <=> call.h >= call.before.h_current)

\* C13: a call integrates from the point (field before the call, magnetization
\* before the call) with the step (new field - field before the call): the
\* independent-variable value handed over is the field before the call.
C13_StartsAtPreviousField ==
    call.op \in {"propagate", "save"} =>
        /\ call.t = call.before.h_current
        /\ call.y = call.before.b_current
        /\ call.step = call.h - call.before.h_current

\* C14: propagate_and_save_magnetization(h, i) leaves h_previous and b_previous
\* at the field and the magnetization the rod had before the call, as
\* propagate_magnetization does, sets h_current = h = h[i+1] and
\* b_current = b[i+1], and changes no other buffer entry.
C14_BufferedUpdatesLikePlain ==
    call.op = "save" =>
        /\ rod.h_previous = call.before.h_current
        /\ rod.b_previous = call.before.b_current
        /\ rod.h_current = call.h
        /\ rod.h[call.i + 2] = call.h
        /\ rod.b_current = rod.b[call.i + 2]
        /\ \A j \in 1..BufSize :
              j # call.i + 2 => (rod.h[j] = call.before.h[j] /\ rod.b[j] = call.before.b[j])

StartRod ==
    /\ rod \in Rods(HVals)
    /\ call = [NoCall EXCEPT !.before = rod]
    /\ ncalls = 0
    /\ held = [h |-> 0, calls |-> 0]

StartHold ==
    /\ rod \in Rods(HVals \cup {HFar, -HFar})
    /\ call = [NoCall EXCEPT !.before = rod]
    /\ ncalls = 0
    /\ held \in {[h |-> x, calls |-> 0] : x \in {HFar, -HFar}}

NextRod == Propagate \/ PropagateAndSave

NextHold == HoldPropagate \/ HoldPropagateAndSave

(***************************************************************************)
(* sim_attitude: the set-up of a run and its integration loop              *)
(***************************************************************************)
MaxDuration == 4

MaxTimeStep == 2

MaxSaveEvery == 2

\* an attitude vector n / d: three integer numerators over one denominator
Sigma(n, d) ==
    LET g == GCD(GCD(Abs(n[1]), Abs(n[2])), GCD(Abs(n[3]), d))
    IN  [n |-> <<n[1] \div g, n[2] \div g, n[3] \div g>>, d |-> d \div g]

NormSquared(s) == Rat(Dot(s.n, s.n), s.d * s.d)

Exceeds1(s) == Dot(s.n, s.n) > s.d * s.d

\* integral_considerations.mrp_switching: an attitude vector of magnitude above
\* 1 is replaced by its shadow set, -sigma / |sigma|^2
mrp_switching(s) ==
    IF Exceeds1(s)
    THEN Sigma(<<-(s.n[1] * s.d), -(s.n[2] * s.d), -(s.n[3] * s.d)>>, Dot(s.n, s.n))
    ELSE s

\* the step's tidy-up left out
tidy_up_skipped(s) == s

\* state = ic.mrp_switching(state)
tidy_up(s) == mrp_switching(s)

\* the parameters of dt.DisturbanceTorques, in the order of its signature
TorqueOrder ==
    <<"gravity", "magnetic", "hysteresis", "aerodynamic", "solar", "calculate_power">>

TorqueNames == {"gravity", "magnetic", "hysteresis", "aerodynamic", "solar"}

\* the torques that query a table of the cubesat
TableTorques == {"aerodynamic", "solar"}

TableNames == {"aerodynamic", "solar", "power"}

Range(seq) == {seq[j] : j \in 1..Len(seq)}

\* dt.DisturbanceTorques(*args): the flags taken by position, False by default
DisturbanceTorques(args) ==
    [name \in Range(TorqueOrder) |->
        LET pos == CHOOSE j \in 1..Len(TorqueOrder) : TorqueOrder[j] = name
        IN  pos <= Len(args) /\ args[pos]]

\* [True for _ in range(len(sim_params['disturbance_torques']))]
\*     + [sim_params['calculate_power']]
TorqueArguments(params) ==
    [j \in 1..Len(params.disturbance_torques) |-> TRUE] \o <<params.calculate_power>>

\* len(np.arange(0, end_time, time_step)) for whole numbers
ArangeLength(end_time, time_step) ==
    IF end_time <= 0 THEN 0 ELSE (end_time + time_step - 1) \div time_step

\* a length that counts len(time) // save_every + 1 slots
SavedLength_from_len(params) ==
    ArangeLength(params.duration, params.time_step) \div params.save_every + 1

\* le = (len(time) - 1) // save_every + 1
SavedLength(params) ==
    (ArangeLength(params.duration, params.time_step) - 1) \div params.save_every + 1

\* the names of a set of torques, in the order of TorqueOrder
InOrder(S) == SelectSeq(TorqueOrder, LAMBDA name : name \in S)

\* sim_params['disturbance_torques']: lists of torque names in the usual order
\* and in the reverse one
DisturbanceLists ==
    {InOrder(S) : S \in SUBSET TorqueNames}
        \cup {Reverse(InOrder(S)) : S \in SUBSET TorqueNames}

\* sim_params['sigma0']: inside the unit ball and outside it
Sigma0s == {Sigma(<<1, 1, 0>>, 2), Sigma(<<2, 0, 0>>, 1)}

\* what an integration step may return as the attitude vector: inside the unit
\* ball, on it, outside it
StepOutcomes == {Sigma(<<1, 0, 0>>, 2), Sigma(<<0, 0, 1>>, 1), Sigma(<<0, 3, 0>>, 2)}

SimParams ==
    [disturbance_torques : DisturbanceLists, calculate_power : BOOLEAN,
     sigma0 : Sigma0s, duration : 0..MaxDuration, time_step : 1..MaxTimeStep,
     save_every : 1..MaxSaveEvery]

\* a slot of the saved arrays: states[k], solar_power[k], how often it was
\* written, and how many integration steps had been made when it was written
ZeroSlot ==
    [sigma |-> Sigma(Zero3, 1), solar_power |-> "zero", written |-> 0, steps |-> 0]

NoTables == [t \in TableNames |-> 0]

NoLog ==
    [steps |-> 0, fed |-> Sigma(Zero3, 1), raw |-> Sigma(Zero3, 1),
     missing |-> {}, tables_before |-> NoTables]

\* lines 18-84: the lengths, the arrays of le slots, the initial state in slot 0
Allocate ==
    /\ pc = "allocate"
    /\ LET le == SavedLength(sim_params)
       IN  IF le <= 0
           THEN /\ pc' = "IndexError"
                /\ states' = << >>
                /\ UNCHANGED state
           ELSE /\ pc' = "torques"
                /\ states' = [[j \in 1..le |-> ZeroSlot] EXCEPT
                                 ![1] = [ZeroSlot EXCEPT !.sigma = sim_params.sigma0,
                                                         !.written = 1]]
                /\ state' = sim_params.sigma0
    /\ UNCHANGED <<sim_params, disturbance_torques, tables, loop, log>>
    /\ UNCHANGED <<face2dVars, face3dVars, rodVars>>

\* line 87
CreateDisturbanceTorques ==
    /\ pc = "torques"
    /\ disturbance_torques' = DisturbanceTorques(TorqueArguments(sim_params))
    /\ pc' = "aerodynamic_table"
    /\ UNCHANGED <<sim_params, tables, loop, state, states, log>>
    /\ UNCHANGED <<face2dVars, face3dVars, rodVars>>

\* cubesat.create_..._table under its condition: the table is built once more
create_table(name, condition) ==
    IF condition THEN [tables EXCEPT ![name] = @ + 1] ELSE tables

\* lines 88-89
CreateAerodynamicTable ==
    /\ pc = "aerodynamic_table"
    /\ tables' = create_table("aerodynamic",
                               "aerodynamic" \in Range(sim_params.disturbance_torques))
    /\ pc' = "solar_table"
    /\ UNCHANGED <<sim_params, disturbance_torques, loop, state, states, log>>
    /\ UNCHANGED <<face2dVars, face3dVars, rodVars>>

\* lines 90-91
CreateSolarTable ==
    /\ pc = "solar_table"
    /\ tables' = create_table("solar", "solar" \in Range(sim_params.disturbance_torques))
    /\ pc' = "power_table"
    /\ UNCHANGED <<sim_params, disturbance_torques, loop, state, states, log>>
    /\ UNCHANGED <<face2dVars, face3dVars, rodVars>>

\* lines 92-98: the last table, then the loop is entered if it has an iteration
CreatePowerTable ==
    /\ pc = "power_table"
    /\ tables' = create_table("power", sim_params.calculate_power)
    /\ pc' = IF ArangeLength(sim_params.duration, sim_params.time_step) - 1 > 0
             THEN "loop" ELSE "done"
    /\ UNCHANGED <<sim_params, disturbance_torques, loop, state, states, log>>
    /\ UNCHANGED <<face2dVars, face3dVars, rodVars>>

\* lines 98-137: one iteration of the loop.  The step evaluates the enabled
\* torques, and those of TableTorques query their table; the attitude vector it
\* returns is any of StepOutcomes.
Step ==
    /\ pc = "loop"
    /\ LET missing == {t \in TableTorques : disturbance_torques[t] /\ tables[t] = 0}
           handed == [log EXCEPT !.steps = @ + 1, !.fed = state,
                                 !.tables_before = IF log.steps = 0 THEN tables ELSE @]
       IN  IF missing # {}
           THEN /\ pc' = "query_failed"
                /\ log' = [handed EXCEPT !.missing = missing]
                /\ UNCHANGED <<loop, state, states>>
           ELSE \E raw \in StepOutcomes, is_eclipse \in BOOLEAN :
                  LET switched == tidy_up(raw)
                      saving == (loop.i + 1) % sim_params.save_every = 0
                      k1 == IF saving THEN loop.k + 1 ELSE loop.k
                      le == Len(states)
                      last == ArangeLength(sim_params.duration, sim_params.time_step) - 1
                  IN  /\ log' = [handed EXCEPT !.raw = raw]
                      /\ state' = switched
                      /\ loop' = [i |-> loop.i + 1, k |-> k1]
                      /\ IF saving /\ k1 + 1 > le
                         THEN /\ pc' = "IndexError"
                              /\ UNCHANGED states
                         ELSE /\ states' =
                                    IF saving
                                    THEN [states EXCEPT ![k1 + 1] =
                                             [sigma |-> switched,
                                              solar_power |-> IF is_eclipse THEN @.solar_power
                                                              ELSE "computed",
                                              written |-> @.written + 1,
                                              steps |-> loop.i + 1]]
                                    ELSE states
                              /\ pc' = IF (saving /\ k1 >= le - 1) \/ loop.i + 1 >= last
                                       THEN "done" ELSE "loop"
    /\ UNCHANGED <<sim_params, disturbance_torques, tables>>
    /\ UNCHANGED <<face2dVars, face3dVars, rodVars>>

StartSim ==
    /\ pc = "allocate"
    /\ sim_params \in SimParams
    /\ disturbance_torques = DisturbanceTorques(<< >>)
    /\ tables = NoTables
    /\ loop = [i |-> 0, k |-> 0]
    /\ state = Sigma(Zero3, 1)
    /\ states = << >>
    /\ log = NoLog

NextSim ==
    \/ Allocate
    \/ CreateDisturbanceTorques
    \/ CreateAerodynamicTable
    \/ CreateSolarTable
    \/ CreatePowerTable
    \/ Step

\* the values of the sim_attitude variables in the specifications of the other
\* parts
IdleSim ==
    [pc |-> "idle",
     sim_params |-> [disturbance_torques |-> << >>, calculate_power |-> FALSE,
                     sigma0 |-> Sigma(Zero3, 1), duration |-> 0, time_step |-> 1,
                     save_every |-> 1],
     disturbance_torques |-> DisturbanceTorques(<< >>), tables |-> NoTables,
     loop |-> [i |-> 0, k |-> 0], state |-> Sigma(Zero3, 1), states |-> << >>,
     log |-> NoLog]

(***************************************************************************)
(* Claims about sim_attitude                                               *)
(***************************************************************************)
\* the slots of the saved array that have been written, as indices of the source
WrittenSlots == {j \in 0..(Len(states) - 1) : states[j + 1].written > 0}

\* C8 as stated: every attitude vector written to the saved state array, and
\* every one handed to an integration step or about to be, has magnitude <= 1.
C8_EveryAttitudeWithinUnitBall ==
    /\ \A j \in WrittenSlots : ~Exceeds1(states[j + 1].sigma)
    /\ log.steps > 0 => ~Exceeds1(log.fed)
    /\ pc = "loop" => ~Exceeds1(state)

\* C8 (amended): the switching acts after a step, so the bound holds from the
\* first step on: every saved slot k >= 1, and every attitude vector handed to a
\* step after the first, has magnitude <= 1.  Slot 0 and the first step get
\* sigma0 as the caller gave it.
C8_WithinUnitBallAfterFirstStep ==
    /\ \A j \in WrittenSlots \ {0} : ~Exceeds1(states[j + 1].sigma)
    /\ 0 \in WrittenSlots => states[1].sigma = sim_params.sigma0
    /\ log.steps = 1 => log.fed = sim_params.sigma0
    /\ log.steps > 1 => ~Exceeds1(log.fed)
    /\ (pc = "loop" /\ loop.i >= 1) => ~Exceeds1(state)

\* a step returned an attitude vector outside the unit ball, and its shadow set
\* was saved and is what the next step is handed
C8_Witness ==
    /\ pc = "loop"
    /\ loop.k >= 1
    /\ Exceeds1(log.raw)
    /\ state = mrp_switching(log.raw)
    /\ states[loop.k + 1].written = 1
    /\ states[loop.k + 1].sigma = state
    /\ NormSquared(state) = RDiv(RInt(1), NormSquared(log.raw))

\* the torque flags exist from line 87 on
TorquesCreated ==
    pc \in {"aerodynamic_table", "solar_table", "power_table", "loop", "done",
            "query_failed"}

\* C9: a torque is enabled exactly when its name is in
\* sim_params['disturbance_torques'], whatever the number and order of the names
\* and whatever calculate_power is.
C9_EnabledIffNamed ==
    TorquesCreated =>
        \A name \in TorqueNames :
            disturbance_torques[name] <=> name \in Range(sim_params.disturbance_torques)

\* C10: each table is built at most once, none after the first integration
\* step has begun, and no step queries a table that has not been built.
C10_TablesBuiltBeforeUse ==
    /\ \A t \in TableNames : tables[t] <= 1
    /\ log.steps > 0 => tables = log.tables_before
    /\ log.missing = {}

(***************************************************************************)
(* CubeSat (src/CubeSat_model.py) and np.linalg.inv.                       *)
(*                                                                         *)
(* np.linalg.inv factorises the matrix by Gaussian elimination with        *)
(* partial pivoting in floating-point arithmetic and raises LinAlgError    *)
(* when a pivot is exactly zero.  A float is kept as an exact quotient     *)
(* that has at most MantissaBits significant bits; np.float64 keeps 53.    *)
(***************************************************************************)
MantissaBits == 10

\* the quotient a / d scaled by powers of two into [2^(MantissaBits - 1),
\* 2^MantissaBits): <<numerator, denominator, exponent>>
RECURSIVE Scaled(_, _, _)
Scaled(a, d, e) ==
    IF a >= (2 ^ MantissaBits) * d THEN Scaled(a, 2 * d, e + 1)
    ELSE IF a < (2 ^ (MantissaBits - 1)) * d THEN Scaled(2 * a, d, e - 1)
    ELSE <<a, d, e>>

\* the float nearest to the quotient x, ties to the even mantissa
fl(x) ==
    IF x[1] = 0 \/ x[2] = 0 THEN x
    ELSE LET s == Scaled(Abs(x[1]), x[2], 0)
             q == s[1] \div s[2]
             r == s[1] % s[2]
             m == IF 2 * r > s[2] \/ (2 * r = s[2] /\ q % 2 = 1) THEN q + 1 ELSE q
         IN  IF s[3] >= 0 THEN Rat(Sgn(x[1]) * m * (2 ^ s[3]), 1)
             ELSE Rat(Sgn(x[1]) * m, 2 ^ (-s[3]))

RAbs(x) == <<Abs(x[1]), x[2]>>

RLess(a, b) == a[1] * b[2] < b[1] * a[2]

\* the matrix of floats of an array of whole numbers
Floats(m) == [r \in 1..3 |-> [c \in 1..3 |-> fl(RInt(m[r][c]))]]

\* a 3 x 3 matrix as the tuple of its rows
Rows(a) ==
    << <<a[1][1], a[1][2], a[1][3]>>, <<a[2][1], a[2][2], a[2][3]>>,
       <<a[3][1], a[3][2], a[3][3]>> >>

\* the first row at or below j whose entry in column j is largest in magnitude
PivotRow(a, j) ==
    CHOOSE p \in j..3 :
        \A q \in j..3 :
            /\ ~RLess(RAbs(a[p][j]), RAbs(a[q][j]))
            /\ q < p => RLess(RAbs(a[q][j]), RAbs(a[p][j]))

SwapRows(a, i, j) == [a EXCEPT ![i] = a[j], ![j] = a[i]]

\* the rows below j with the multiple of row j taken off that clears column j;
\* column j keeps the multiplier
EliminateColumn(a, j) ==
    [r \in 1..3 |->
        IF r <= j THEN a[r]
        ELSE LET mult == fl(RDiv(a[r][j], a[j][j]))
             IN  [c \in 1..3 |->
                    IF c < j THEN a[r][c]
                    ELSE IF c = j THEN mult
                    ELSE fl(RSub(a[r][c], fl(RMul(mult, a[j][c]))))]]

\* the factorisation from column j on: info is the column of the first pivot
\* that is exactly zero, 0 when there is none
RECURSIVE getrf(_, _)
getrf(a, j) ==
    IF j > 3 THEN [info |-> 0, lu |-> a]
    ELSE LET b == SwapRows(a, j, PivotRow(a, j))
         IN  IF b[j][j][1] = 0 THEN [info |-> j, lu |-> b]
             ELSE getrf(EliminateColumn(b, j), j + 1)

\* np.linalg.inv: raises LinAlgError("Singular matrix") when the factorisation
\* met a zero pivot; otherwise the inverse is formed from the factors lu
inv(m) ==
    LET f == getrf(Floats(m), 1)
    IN  IF f.info > 0 THEN [raised |-> "LinAlgError", value |-> None]
        ELSE [raised |-> "none", value |-> Rows(f.lu)]

\* CubeSat.__init__: what the constructor call gives the caller
CubeSat(faces, center_of_mass, inertia) ==
    LET inverse == inv(inertia)
    IN  IF inverse.raised # "none" THEN [raised |-> inverse.raised, value |-> None]
        ELSE Returned([faces |-> faces, center_of_mass |-> center_of_mass,
                       inertia |-> inertia, inertia_inv |-> inverse.value])

Diagonal(a, b, c) == << <<a, 0, 0>>, <<0, b, 0>>, <<0, 0, c>> >>

\* inertia arguments: invertible ones; singular ones with a zero row, with two
\* equal rows, and of rank two without either
Inertias ==
    {Eye, Diagonal(2, 2, 4), << <<2, 1, 0>>, <<1, 2, 0>>, <<0, 0, 3>> >>,
     Diagonal(0, 0, 0), Diagonal(1, 1, 0), << <<1, 1, 0>>, <<1, 1, 0>>, <<0, 0, 1>> >>,
     << <<4, 6, 2>>, <<6, 10, 4>>, <<2, 4, 2>> >>}

\* objects is the tuple of the objects the call gave: one, or none when it raised
NoCubeSat == [op |-> "none", inertia |-> Eye, raised |-> "none", objects |-> << >>]

\* cubesat = CubeSat([face3d], np.zeros(3), inertia)
NewCubeSat ==
    \E inertia \in Inertias :
        LET r == CubeSat(<<f3>>, Zero3, inertia)
        IN  /\ cubesat.op = "none"
            /\ cubesat' = [op |-> "CubeSat", inertia |-> inertia, raised |-> r.raised,
                           objects |-> IF r.raised = "none" THEN <<r.value>> ELSE << >>]
            /\ UNCHANGED <<face2dVars, f3, orient_src, f3op, rodVars, simVars>>

NextAssembly == Add \/ Sub \/ IAdd \/ ISub \/ NewCubeSat

(***************************************************************************)
(* Claims about the two error conditions                                   *)
(***************************************************************************)
\* C11: combining a polygon with an operand that is neither a vector nor a
\* polygon raises TypeError and leaves the polygon as it was, and constructing
\* a CubeSat with an inertia matrix that has no inverse raises the
\* singular-matrix error and gives no object.
C11_FailFast ==
    /\ (lastOp.op \in {"add", "sub", "iadd", "isub"} /\ lastOp.other.type = "other")
          => (lastOp.raised = "TypeError" /\ face = lastOp.before)
    /\ (cubesat.op = "CubeSat" /\ Det(cubesat.inertia) = 0)
          => (cubesat.raised = "LinAlgError" /\ cubesat.objects = << >>)

\* the arrays of sim_attitude have been allocated and slot 0 has been filled
SimAllocated ==
    pc \in {"torques", "aerodynamic_table", "solar_table", "power_table", "loop",
            "done", "query_failed"}

\* C15: for time_step, duration and save_every of at least 1, the save index k
\* never exceeds le - 1 and no write falls outside the le slots, slot 0 holds
\* the initial state, each slot k in 1..le-1 is written exactly once, with the
\* state after exactly k * save_every integration steps, and when the loop ends
\* every slot 0..le-1 has been written.
C15_Decimation ==
    sim_params.duration >= 1 =>
        /\ pc # "IndexError"
        /\ SimAllocated =>
              LET le == SavedLength(sim_params)
                  save_every == sim_params.save_every
              IN  /\ Len(states) = le
                  /\ loop.k <= le - 1
                  /\ states[1] = [ZeroSlot EXCEPT !.sigma = sim_params.sigma0,
                                                  !.written = 1]
                  /\ \A j \in 1..(le - 1) :
                        /\ states[j + 1].written = IF j <= loop.k THEN 1 ELSE 0
                        /\ j <= loop.k =>
                              /\ states[j + 1].steps = j * save_every
                              /\ loop.i = j * save_every => states[j + 1].sigma = state
                  /\ pc = "done" => loop.k = le - 1

\* the loop has ended by its break with an iteration left over, after saving
\* every second step
C15_Witness ==
    /\ pc = "done"
    /\ sim_params.save_every = 2
    /\ SavedLength(sim_params) = 2
    /\ loop.k = 1
    /\ loop.i < ArangeLength(sim_params.duration, sim_params.time_step) - 1
    /\ states[2].written = 1
    /\ states[2].steps = 2

(***************************************************************************)
(* Specifications                                                          *)
(***************************************************************************)
\* the values of the rod variables in the specifications of the other parts
IdleRod ==
    [rod |-> HysteresisRod(0, 0, 0), call |-> NoCall, ncalls |-> 0,
     held |-> [h |-> 0, calls |-> 0]]

InitFace2D ==
    /\ StartFace2D
    /\ f3 = IdleFace3D.f3 /\ orient_src = IdleFace3D.orient_src /\ f3op = IdleFace3D.f3op
    /\ cubesat = NoCubeSat
    /\ rod = IdleRod.rod /\ call = IdleRod.call /\ ncalls = IdleRod.ncalls
    /\ held = IdleRod.held
    /\ pc = IdleSim.pc /\ sim_params = IdleSim.sim_params
    /\ disturbance_torques = IdleSim.disturbance_torques /\ tables = IdleSim.tables
    /\ loop = IdleSim.loop /\ state = IdleSim.state /\ states = IdleSim.states
    /\ log = IdleSim.log

SpecFace2D == InitFace2D /\ [][NextFace2D]_vars

InitFace3D ==
    /\ face = IdleFace2D.face /\ lastOp = IdleFace2D.lastOp /\ rt = IdleFace2D.rt
    /\ nops = IdleFace2D.nops
    /\ StartFace3D
    /\ cubesat = NoCubeSat
    /\ rod = IdleRod.rod /\ call = IdleRod.call /\ ncalls = IdleRod.ncalls
    /\ held = IdleRod.held
    /\ pc = IdleSim.pc /\ sim_params = IdleSim.sim_params
    /\ disturbance_torques = IdleSim.disturbance_torques /\ tables = IdleSim.tables
    /\ loop = IdleSim.loop /\ state = IdleSim.state /\ states = IdleSim.states
    /\ log = IdleSim.log

SpecFace3D == InitFace3D /\ [][NextFace3D]_vars

InitRod ==
    /\ face = IdleFace2D.face /\ lastOp = IdleFace2D.lastOp /\ rt = IdleFace2D.rt
    /\ nops = IdleFace2D.nops
    /\ f3 = IdleFace3D.f3 /\ orient_src = IdleFace3D.orient_src /\ f3op = IdleFace3D.f3op
    /\ cubesat = NoCubeSat
    /\ StartRod
    /\ pc = IdleSim.pc /\ sim_params = IdleSim.sim_params
    /\ disturbance_torques = IdleSim.disturbance_torques /\ tables = IdleSim.tables
    /\ loop = IdleSim.loop /\ state = IdleSim.state /\ states = IdleSim.states
    /\ log = IdleSim.log

SpecRod == InitRod /\ [][NextRod]_vars

InitHold ==
    /\ face = IdleFace2D.face /\ lastOp = IdleFace2D.lastOp /\ rt = IdleFace2D.rt
    /\ nops = IdleFace2D.nops
    /\ f3 = IdleFace3D.f3 /\ orient_src = IdleFace3D.orient_src /\ f3op = IdleFace3D.f3op
    /\ cubesat = NoCubeSat
    /\ StartHold
    /\ pc = IdleSim.pc /\ sim_params = IdleSim.sim_params
    /\ disturbance_torques = IdleSim.disturbance_torques /\ tables = IdleSim.tables
    /\ loop = IdleSim.loop /\ state = IdleSim.state /\ states = IdleSim.states
    /\ log = IdleSim.log

\* the driver's loop makes its next call as long as there is one to make
SpecHold == InitHold /\ [][NextHold]_vars /\ WF_vars(NextHold)

InitSim ==
    /\ face = IdleFace2D.face /\ lastOp = IdleFace2D.lastOp /\ rt = IdleFace2D.rt
    /\ nops = IdleFace2D.nops
    /\ f3 = IdleFace3D.f3 /\ orient_src = IdleFace3D.orient_src /\ f3op = IdleFace3D.f3op
    /\ cubesat = NoCubeSat
    /\ rod = IdleRod.rod /\ call = IdleRod.call /\ ncalls = IdleRod.ncalls
    /\ held = IdleRod.held
    /\ StartSim

SpecSim == InitSim /\ [][NextSim]_vars

InitAssembly ==
    /\ StartFace2D
    /\ f3 = IdleFace3D.f3 /\ orient_src = IdleFace3D.orient_src /\ f3op = IdleFace3D.f3op
    /\ cubesat = NoCubeSat
    /\ rod = IdleRod.rod /\ call = IdleRod.call /\ ncalls = IdleRod.ncalls
    /\ held = IdleRod.held
    /\ pc = IdleSim.pc /\ sim_params = IdleSim.sim_params
    /\ disturbance_torques = IdleSim.disturbance_torques /\ tables = IdleSim.tables
    /\ loop = IdleSim.loop /\ state = IdleSim.state /\ states = IdleSim.states
    /\ log = IdleSim.log

SpecAssembly == InitAssembly /\ [][NextAssembly]_vars

=============================================================================
